---- MODULE Spec2Model ----
(***************************************************************************)
(* A model of lib/element/travis/travisScanner.ts: the asynchronous scan   *)
(* of a project for ".travis.yml", the YAML-then-JSON decoder, the         *)
(* normalisation of the decoded object into a TravisCi descriptor and the  *)
(* usesUnsupportedFeatures classifier.                                     *)
(*                                                                         *)
(* JavaScript values are tagged records: [t |-> "undefined"],              *)
(* [t |-> "null"], [t |-> "bool", b], [t |-> "num", n], [t |-> "str", s]   *)
(* (s a sequence of one-character strings), [t |-> "seq", e] (e a sequence *)
(* of values) and [t |-> "map", m] (m a record of the keys present; the    *)
(* mapping with no key is [t |-> "map"]).                                  *)
(***************************************************************************)
EXTENDS Integers, Sequences, FiniteSets, TLC

VARIABLES files, pc, proj, travisYaml, reads, tried, nativeObject, result, logged

vars == <<files, pc, proj, travisYaml, reads, tried, nativeObject, result, logged>>

(* ------------------------------ bounds ------------------------------- *)

\* Number of scans the framework runs concurrently.
NumScans == 2
\* Longest env entry of the one-entry env lists.
MaxStrLen == 4
\* Longest list of the scalar-or-list fields, of services and of env.
MaxListLen == 2

Scans == 1..NumScans
Projects == {"p1", "p2"}

(* ------------------------- JavaScript values ------------------------- *)

Undefined == [t |-> "undefined"]
Null == [t |-> "null"]
Bool(b) == [t |-> "bool", b |-> b]
Num(n) == [t |-> "num", n |-> n]
Str(s) == [t |-> "str", s |-> s]
Arr(e) == [t |-> "seq", e |-> e]
Map(m) == [t |-> "map", m |-> m]
EmptyMap == [t |-> "map"]

\* The outcome of an evaluation that may throw.
Ok(v) == [ok |-> TRUE, v |-> v]
Throw(msg) == [ok |-> FALSE, msg |-> msg]

\* ToBoolean: what `x ? a : b`, `!!x` and `x || y` test.
Truthy(v) ==
    CASE v.t = "undefined" -> FALSE
      [] v.t = "null" -> FALSE
      [] v.t = "bool" -> v.b
      [] v.t = "num" -> v.n # 0
      [] v.t = "str" -> v.s # <<>>
      [] OTHER -> TRUE

\* obj.key on a value that is neither null nor undefined: the value bound to
\* the key, undefined when the key is absent (none of the keys the scanner
\* reads is a property of a string, a number, a boolean or an array).
Get(obj, key) ==
    IF obj.t = "map" /\ "m" \in DOMAIN obj /\ key \in DOMAIN obj.m
    THEN obj.m[key]
    ELSE Undefined

\* The elements `for (const e of x || [])` visits, or the TypeError of a
\* truthy value that is not iterable.
IterateOrEmpty(x) ==
    IF ~Truthy(x) THEN Ok(<<>>)
    ELSE IF x.t = "seq" THEN Ok(x.e)
    ELSE IF x.t = "str" THEN Ok([i \in 1..Len(x.s) |-> Str(<<x.s[i]>>)])
    ELSE Throw("TypeError: not iterable")

(* ------------------------- String.prototype -------------------------- *)

Min(a, b) == IF a < b THEN a ELSE b
Max(a, b) == IF a > b THEN a ELSE b
Clamp(i, n) == Max(0, Min(i, n))

\* s.indexOf(c): the 0-based index of the first c, -1 when there is none.
IndexOf(s, c) ==
    IF \E i \in 1..Len(s) : s[i] = c
    THEN (CHOOSE i \in 1..Len(s) : s[i] = c /\ \A j \in 1..(i - 1) : s[j] # c) - 1
    ELSE -1

\* s.substring(start, end): both clamped to 0..length and swapped when
\* start > end.
Substring(s, start, end) ==
    LET a == Clamp(start, Len(s))
        b == Clamp(end, Len(s))
    IN SubSeq(s, Min(a, b) + 1, Max(a, b))

\* s.substring(start)
SubstringFrom(s, start) == Substring(s, start, Len(s))

\* s.startsWith(c) for a one-character c.
StartsWith(s, c) == Len(s) > 0 /\ s[1] = c

(* ----------------------------- decoder ------------------------------- *)

\* A file's content is known by what the two parsers make of it: each either
\* returns a value or throws.
yamlParse(content) == content.yaml
jsonParse(content) == content.json

\* Fault injection for C3: JSON first, YAML as the fallback.
tryAsJsonThenYaml(content) ==
    IF jsonParse(content).ok
    THEN [res |-> jsonParse(content), tried |-> <<"json">>]
    ELSE [res |-> yamlParse(content), tried |-> <<"json", "yaml">>]

\* tryAsYamlThenJson: the value (or the error) the decoder ends with, and the
\* parsers it called, in order.
tryAsYamlThenJson(content) ==
    IF yamlParse(content).ok
    THEN [res |-> yamlParse(content), tried |-> <<"yaml">>]
    ELSE [res |-> jsonParse(content), tried |-> <<"yaml", "json">>]

(* ---------------------------- normalizer ----------------------------- *)

Quote == "\""

\* toStringArray of @atomist/automation-client, on the truthy values the
\* scanner hands it: a list is itself, anything else a one-element list.
toStringArray(x) == IF x.t = "seq" THEN x.e ELSE <<x>>

\* Fault injection for C6: only an absent field counts as absent.
ArrayUnlessUndefined(x) == IF x.t # "undefined" THEN toStringArray(x) ELSE <<>>

\* `x ? toStringArray(x) : []`
ArrayOrEmpty(x) == IF Truthy(x) THEN toStringArray(x) ELSE <<>>

\* Fault injection for C10: an entry without '=' is taken whole as the key.
EnvKeyOrWhole(e) ==
    IF IndexOf(e, "=") = -1 THEN e ELSE Substring(e, 0, IndexOf(e, "="))

\* const key = e.substring(0, e.indexOf("="))
EnvKey(e) == Substring(e, 0, IndexOf(e, "="))

\* let value = e.substring(key.length + 1)
EnvRawValue(e) == SubstringFrom(e, Len(EnvKey(e)) + 1)

\* Fault injection for C5: the quotes are stripped only from a value that
\* also ends with one.
StripBalancedQuotes(value) ==
    IF StartsWith(value, Quote) /\ Len(value) >= 2 /\ value[Len(value)] = Quote
    THEN Substring(value, 1, Len(value) - 1)
    ELSE value

\* if (value.startsWith('"')) { value = value.substring(1, value.length - 1); }
StripQuotes(value) ==
    IF StartsWith(value, Quote)
    THEN Substring(value, 1, Len(value) - 1)
    ELSE value

EnvValue(e) == StripQuotes(EnvRawValue(e))

\* An object with no own key, and obj[key] = value.
EmptyObject == [k \in {} |-> Undefined]
Put(obj, key, value) ==
    [k \in DOMAIN obj \cup {key} |-> IF k = key THEN value ELSE obj[k]]

\* The body of the env loop from entry i on; e.substring of an entry that is
\* not a string is a TypeError.
RECURSIVE EnvLoop(_, _, _)
EnvLoop(entries, i, env) ==
    IF i > Len(entries) THEN Ok(env)
    ELSE IF entries[i].t # "str"
    THEN Throw("TypeError: e.substring is not a function")
    ELSE EnvLoop(entries, i + 1,
                 Put(env, EnvKey(entries[i].s), EnvValue(entries[i].s)))

\* const env = {}; for (const e of nativeObject.env || []) { ... }
BoundEnv(obj) ==
    LET it == IterateOrEmpty(Get(obj, "env"))
    IN IF it.ok THEN EnvLoop(it.v, 1, EmptyObject) ELSE it

\* services[e] = {} for every e of the list (the property key of a string is
\* the string).
RECURSIVE ServicesLoop(_, _, _)
ServicesLoop(entries, i, services) ==
    IF i > Len(entries) THEN services
    ELSE ServicesLoop(entries, i + 1, Put(services, entries[i].s, EmptyMap))

\* Fault injection for C7: a single string is iterated like a list, one key per
\* character.
ServicesIterated(obj) ==
    LET it == IterateOrEmpty(Get(obj, "services"))
    IN IF it.ok THEN Ok(ServicesLoop(it.v, 1, EmptyObject)) ELSE it

\* const services = {}; a single string or a list.
ServicesOf(obj) ==
    LET raw == Get(obj, "services")
        it == IterateOrEmpty(raw)
    IN IF raw.t = "str" THEN Ok(Put(EmptyObject, raw.s, EmptyMap))
       ELSE IF it.ok THEN Ok(ServicesLoop(it.v, 1, EmptyObject))
       ELSE it

\* Fault injection for C8: a missing stanza becomes a stanza with two empty lists.
BranchRulesAlways(obj) ==
    [only |-> ArrayOrEmpty(Get(Get(obj, "branches"), "only")),
     except |-> ArrayOrEmpty(Get(Get(obj, "branches"), "except"))]

\* const branches = nativeObject.branches ? {only: ..., except: ...} : undefined
BranchRules(obj) ==
    IF Truthy(Get(obj, "branches"))
    THEN [only |-> ArrayOrEmpty(Get(Get(obj, "branches"), "only")),
          except |-> ArrayOrEmpty(Get(Get(obj, "branches"), "except"))]
    ELSE Undefined

\* Fault injection for C4: any addons value other than undefined is unsupported.
usesAnyAddons(travis) == travis.addons.t # "undefined"

\* usesUnsupportedFeatures: !!travis.addons
usesUnsupportedFeatures(travis) == Truthy(travis.addons)

\* The object literal `travis`, then travis.canEmulate = !usesUnsupportedFeatures(travis).
TravisCi(obj, projectName, env, services) ==
    LET travis ==
            [name |-> "travis",
             projectName |-> projectName,
             branches |-> BranchRules(obj),
             language |-> Get(obj, "language"),
             scripts |-> ArrayOrEmpty(Get(obj, "script")),
             env |-> env,
             addons |-> Get(obj, "addons"),
             beforeInstall |-> ArrayOrEmpty(Get(obj, "before_install")),
             afterSuccess |-> ArrayOrEmpty(Get(obj, "after_success")),
             services |-> services,
             referencedEnvironmentVariables |-> <<>>,
             tags |-> <<"travis">>,
             nodeJs |-> ArrayOrEmpty(Get(obj, "node_js"))]
    IN [name |-> travis.name,
        projectName |-> travis.projectName,
        branches |-> travis.branches,
        language |-> travis.language,
        scripts |-> travis.scripts,
        env |-> travis.env,
        addons |-> travis.addons,
        beforeInstall |-> travis.beforeInstall,
        afterSuccess |-> travis.afterSuccess,
        services |-> travis.services,
        referencedEnvironmentVariables |-> travis.referencedEnvironmentVariables,
        tags |-> travis.tags,
        nodeJs |-> travis.nodeJs,
        canEmulate |-> ~usesUnsupportedFeatures(travis)]

\* Lines 99-151 on a decoded value: the descriptor, or the error thrown on
\* the way (reading a property of null, the env loop, the services loop).
Normalize(obj, projectName) ==
    IF obj.t \in {"null", "undefined"}
    THEN Throw("TypeError: Cannot read property 'env' of null")
    ELSE IF ~BoundEnv(obj).ok THEN BoundEnv(obj)
    ELSE IF ~ServicesOf(obj).ok THEN ServicesOf(obj)
    ELSE Ok(TravisCi(obj, projectName, BoundEnv(obj).v, ServicesOf(obj).v))

\* The try block once the content is in hand: decode, then normalize.
TryBlock(content, projectName) ==
    LET dec == tryAsYamlThenJson(content)
    IN [tried |-> dec.tried,
        decoded |-> dec.res,
        out |-> IF dec.res.ok THEN Normalize(dec.res.v, projectName) ELSE dec.res]

(* ------------------------------ scanner ------------------------------ *)

\* Fault injection for C1: the catch block logs and rethrows.
CatchAndRethrow(e) ==
    [pc |-> "rejected", result |-> Undefined, warn |-> <<e.msg>>]

\* catch (e) { logger.warn("Cannot parse YAML file: %s", e.message); return undefined; }
Catch(e) ==
    [pc |-> "fulfilled", result |-> Undefined, warn |-> <<e.msg>>]

\* How the try/catch ends for what the try block produced.
Settle(tb) ==
    IF tb.out.ok
    THEN [pc |-> "fulfilled", result |-> tb.out.v, warn |-> <<>>]
    ELSE Catch(tb.out)

(* ------------------------------ inputs ------------------------------- *)

Chars == {"a", "=", Quote}
Strings(n) == UNION {[1..k -> Chars] : k \in 0..n}
Lists(S, n) == UNION {[1..k -> S] : k \in 0..n}

StrA == Str(<<"a">>)
StrB == Str(<<"b">>)
StrAB == Str(<<"a", "b">>)
EnvAA == Str(<<"a", "=", "a">>)
EnvQuoted == Str(<<"a", "=", Quote, "a", Quote>>)

YamlError == Throw("ParseException: Malformed inline YAML string")
JsonError == Throw("SyntaxError: Unexpected token in JSON")

ScalarOrListValues ==
    {Null, Str(<<>>), StrA, Num(0), Num(1), Bool(FALSE), Bool(TRUE), EmptyMap}
    \cup {Arr(l) : l \in Lists({StrA, StrB}, MaxListLen)}

EnvEntrySamples == {EnvAA, Str(<<"a", "=">>), Str(<<"a", "a">>), StrA, Num(1)}

EnvValues ==
    {Null, EnvAA, Num(0), Num(1), EmptyMap, Arr(<<EnvQuoted>>),
     Arr(<<EnvQuoted, EnvAA>>)}
    \cup {Arr(<<Str(s)>>) : s \in Strings(MaxStrLen)}
    \cup {Arr(l) : l \in Lists(EnvEntrySamples, MaxListLen)}

ServicesValues ==
    {Null, Str(<<>>), StrA, StrAB, Num(0), Num(1), Bool(TRUE), EmptyMap}
    \cup {Arr(l) : l \in Lists({StrA, StrB}, MaxListLen)}

BranchSubValues == {Str(<<>>), StrA, Num(0), Arr(<<>>), Arr(<<StrA, StrB>>)}

BranchesValues ==
    {Null, Bool(FALSE), Str(<<>>), Num(0), StrA, Bool(TRUE), EmptyMap}
    \cup {Map([only |-> x]) : x \in BranchSubValues}
    \cup {Map([except |-> x]) : x \in BranchSubValues}
    \cup {Map([only |-> x, except |-> y]) : x, y \in BranchSubValues}

AddonsValues ==
    {Null, Bool(FALSE), Num(0), Str(<<>>), StrA, Bool(TRUE), Num(1), EmptyMap,
     Arr(<<>>), Map([apt |-> StrA])}

FullRoot ==
    Map([language |-> StrA, script |-> Arr(<<StrA, StrB>>), env |-> Arr(<<EnvAA>>),
         services |-> StrAB, branches |-> Map([only |-> StrA]),
         addons |-> Map([apt |-> StrA]), before_install |-> StrA,
         after_success |-> StrB, node_js |-> Num(1)])

\* The values a parse may return.
Roots ==
    {EmptyMap, FullRoot, Null, StrA, Num(1), Bool(TRUE), Arr(<<>>),
     Map([language |-> StrA]), Map([language |-> Null]),
     Map([addons |-> StrA, env |-> Arr(<<Num(1)>>)]),
     Map([addons |-> Bool(FALSE), services |-> Num(1)])}
    \cup {Map([script |-> v]) : v \in ScalarOrListValues}
    \cup {Map([before_install |-> v]) : v \in ScalarOrListValues}
    \cup {Map([after_success |-> v]) : v \in ScalarOrListValues}
    \cup {Map([node_js |-> v]) : v \in ScalarOrListValues}
    \cup {Map([env |-> v]) : v \in EnvValues}
    \cup {Map([services |-> v]) : v \in ServicesValues}
    \cup {Map([branches |-> v]) : v \in BranchesValues}
    \cup {Map([addons |-> v]) : v \in AddonsValues}

\* What a content that is JSON may hold.
JsonRoots ==
    {EmptyMap, FullRoot, Null, Map([language |-> StrA]),
     Map([env |-> Arr(<<Num(1)>>)]), Map([script |-> Str(<<>>)])}

\* Contents by what the parsers make of them: YAML only, JSON only (a JSON
\* document the YAML parser rejects), both, neither.
Contents ==
    {[yaml |-> Ok(r), json |-> JsonError] : r \in Roots}
    \cup {[yaml |-> YamlError, json |-> Ok(r)] : r \in JsonRoots}
    \cup {[yaml |-> Ok(r), json |-> Ok(q)] :
            r, q \in {EmptyMap, Null, Map([language |-> StrA])}}
    \cup {[yaml |-> YamlError, json |-> JsonError]}

\* What p.getFile returns: undefined, or a file with its content.
File(content) == [t |-> "file", content |-> content]
Files == {Undefined} \cup {File(c) : c \in Contents}
OtherFiles ==
    {Undefined,
     File([yaml |-> Ok(Map([language |-> StrB])), json |-> JsonError]),
     File([yaml |-> YamlError, json |-> JsonError])}

(* --------------------------- state machine --------------------------- *)

NotRun == Throw("not run")

Init ==
    /\ files \in {f \in [Projects -> Files] : f["p2"] \in OtherFiles}
    /\ pc = [s \in Scans |-> "idle"]
    /\ proj = [s \in Scans |-> "none"]
    /\ travisYaml = [s \in Scans |-> Undefined]
    /\ reads = [s \in Scans |-> 0]
    /\ tried = [s \in Scans |-> <<>>]
    /\ nativeObject = [s \in Scans |-> NotRun]
    /\ result = [s \in Scans |-> Undefined]
    /\ logged = [s \in Scans |-> <<>>]

\* p.getFile(".travis.yml")
getFile(p) == files[p]

\* Fault injection for C9: the file handle is kept in one place for all scans,
\* so a scan reads the content of whichever scan is waiting for its content.
SharedContent(s) ==
    travisYaml[CHOOSE o \in Scans : pc[o] = "getContent"
                  /\ \A q \in Scans : pc[q] = "getContent" => o <= q].content

\* await travisYaml.getContent(): the content of the scan's own file.
getContent(s) == travisYaml[s].content

\* The framework calls travisScanner(p); the scan runs to its first await.
Call(s) ==
    /\ pc[s] = "idle"
    /\ \E p \in Projects : proj' = [proj EXCEPT ![s] = p]
    /\ pc' = [pc EXCEPT ![s] = "getFile"]
    /\ UNCHANGED <<files, travisYaml, reads, tried, nativeObject, result, logged>>

\* Fault injection for C2: the absence test is missing, so the scan enters
\* the try block and getContent of undefined throws into the catch.
FileAbsentCaught(s) ==
    /\ pc[s] = "getFile"
    /\ ~Truthy(getFile(proj[s]))
    /\ pc' = [pc EXCEPT ![s] = "fulfilled"]
    /\ result' = [result EXCEPT ![s] = Undefined]
    /\ logged' = [logged EXCEPT ![s] =
                     @ \o <<"TypeError: Cannot read property 'getContent' of undefined">>]
    /\ UNCHANGED <<files, proj, travisYaml, reads, tried, nativeObject>>

\* getFile resolved with no file: return undefined.
FileAbsent(s) ==
    /\ pc[s] = "getFile"
    /\ ~Truthy(getFile(proj[s]))
    /\ pc' = [pc EXCEPT ![s] = "fulfilled"]
    /\ result' = [result EXCEPT ![s] = Undefined]
    /\ UNCHANGED <<files, proj, travisYaml, reads, tried, nativeObject, logged>>

\* getFile resolved with a file: enter the try block and await its content.
FileFound(s) ==
    /\ pc[s] = "getFile"
    /\ Truthy(getFile(proj[s]))
    /\ travisYaml' = [travisYaml EXCEPT ![s] = getFile(proj[s])]
    /\ reads' = [reads EXCEPT ![s] = @ + 1]
    /\ pc' = [pc EXCEPT ![s] = "getContent"]
    /\ UNCHANGED <<files, proj, tried, nativeObject, result, logged>>

\* getContent resolved: decode, normalize, classify, and return or catch.
ContentRead(s) ==
    /\ pc[s] = "getContent"
    /\ LET tb == TryBlock(getContent(s), proj[s])
           end == Settle(tb)
       IN /\ tried' = [tried EXCEPT ![s] = tb.tried]
          /\ nativeObject' = [nativeObject EXCEPT ![s] = tb.decoded]
          /\ result' = [result EXCEPT ![s] = end.result]
          /\ logged' = [logged EXCEPT ![s] = @ \o end.warn]
          /\ pc' = [pc EXCEPT ![s] = end.pc]
    /\ UNCHANGED <<files, proj, travisYaml, reads>>

Next ==
    \E s \in Scans :
        \/ Call(s)
        \/ FileAbsent(s)
        \/ FileFound(s)
        \/ ContentRead(s)

Spec == Init /\ [][Next]_vars

(* ---------------------- vocabulary of the claims --------------------- *)

Done(s) == pc[s] \in {"fulfilled", "rejected"}

\* The file of the project scan s was called on.
FileOf(s) == files[proj[s]]
FilePresent(s) == FileOf(s) # Undefined
FileAbsentFor(s) == FileOf(s) = Undefined

\* The fields of a complete descriptor.
DescriptorFields ==
    {"name", "projectName", "branches", "language", "scripts", "env", "addons",
     "beforeInstall", "afterSuccess", "services",
     "referencedEnvironmentVariables", "tags", "nodeJs", "canEmulate"}

IsDescriptor(r) == DOMAIN r = DescriptorFields

\* Scan s returned a descriptor.
Returned(s) == pc[s] = "fulfilled" /\ IsDescriptor(result[s])

\* The value scan s decoded, and one field of it as the source wrote it
\* (undefined when the key is absent or the value has no keys).
Root(s) == nativeObject[s].v
Raw(s, key) ==
    IF Root(s).t = "map" /\ "m" \in DOMAIN Root(s) /\ key \in DOMAIN Root(s).m
    THEN Root(s).m[key]
    ELSE Undefined

IsScalar(v) == v.t \in {"str", "num", "bool"}
IsFalsyScalar(v) == v = Str(<<>>) \/ v = Num(0) \/ v = Bool(FALSE)
IsAbsentOrNull(v) == v = Undefined \/ v = Null

HasEq(e) == \E i \in 1..Len(e) : e[i] = "="
FirstEq(e) == CHOOSE i \in 1..Len(e) : e[i] = "=" /\ \A j \in 1..(i - 1) : e[j] # "="
TextBeforeEq(e) == SubSeq(e, 1, FirstEq(e) - 1)
TextAfterEq(e) == SubSeq(e, FirstEq(e) + 1, Len(e))
WithoutFirst(e) == SubSeq(e, 2, Len(e))
WithoutOuter(v) == SubSeq(v, 2, Len(v) - 1)
BeginsWithQuote(v) == Len(v) >= 1 /\ v[1] = Quote
Wrapped(v) == Len(v) >= 2 /\ v[1] = Quote /\ v[Len(v)] = Quote

\* The env of scan s is a list of strings only.
EnvIsStringList(s) ==
    /\ Raw(s, "env").t = "seq"
    /\ \A i \in 1..Len(Raw(s, "env").e) : Raw(s, "env").e[i].t = "str"
EnvEntry(s, i) == Raw(s, "env").e[i].s
EnvLen(s) == Len(Raw(s, "env").e)

\* The key entry e is stored under: the text before its first '=', the empty
\* string when it has none.
KeyOfEntry(e) == IF HasEq(e) THEN TextBeforeEq(e) ELSE <<>>
\* No later entry of the env of scan s is stored under the key of entry i.
LastForItsKey(s, i) ==
    \A j \in (i + 1)..EnvLen(s) : KeyOfEntry(EnvEntry(s, j)) # KeyOfEntry(EnvEntry(s, i))

(* ------------------------------- C1 ---------------------------------- *)

BothParsesFail(s) ==
    ~FileOf(s).content.yaml.ok /\ ~FileOf(s).content.json.ok
HasNonStringEnvEntry(s) ==
    /\ nativeObject[s].ok
    /\ Raw(s, "env").t = "seq"
    /\ \E i \in 1..Len(Raw(s, "env").e) : Raw(s, "env").e[i].t # "str"

\* C1: a scan whose file exists never fails towards its caller; it ends either
\* with a complete descriptor and no diagnostic, or with undefined and exactly
\* one diagnostic, and it ends the second way whenever the content is neither
\* YAML nor JSON or an env entry is not a string.
C1_FailuresContained ==
    \A s \in Scans :
        Done(s) /\ FilePresent(s) =>
            /\ pc[s] = "fulfilled"
            /\ \/ IsDescriptor(result[s]) /\ logged[s] = <<>>
               \/ result[s] = Undefined /\ Len(logged[s]) = 1
            /\ BothParsesFail(s) \/ HasNonStringEnvEntry(s) =>
                   result[s] = Undefined /\ Len(logged[s]) = 1

\* One scan ended on content neither parser accepts and another on an env
\* entry that is not a string, each with undefined and one diagnostic.
C1_Witness ==
    \E s, u \in Scans :
        /\ Done(s) /\ FilePresent(s) /\ BothParsesFail(s)
        /\ result[s] = Undefined /\ Len(logged[s]) = 1
        /\ Done(u) /\ FilePresent(u) /\ HasNonStringEnvEntry(u)
        /\ result[u] = Undefined /\ Len(logged[u]) = 1

(* ------------------------------- C2 ---------------------------------- *)

\* C2: a scan of a project without ".travis.yml" returns undefined, logs
\* nothing, and never reads content, decodes or normalizes.
C2_AbsentFileIsSilent ==
    \A s \in Scans :
        Done(s) /\ FileAbsentFor(s) =>
            /\ pc[s] = "fulfilled"
            /\ result[s] = Undefined
            /\ logged[s] = <<>>
            /\ reads[s] = 0
            /\ tried[s] = <<>>
            /\ nativeObject[s] = NotRun

\* A scan of a project without the file has ended.
C2_Witness ==
    \E s \in Scans : Done(s) /\ FileAbsentFor(s) /\ result[s] = Undefined

(* ------------------------------- C3 ---------------------------------- *)

\* C3: the decoder calls the YAML parser first; when it succeeds its value is
\* the result and JSON is not called; when it throws, JSON is called on the
\* same content and its outcome is the result; decoding fails exactly when
\* both parsers fail.
C3_YamlThenJson ==
    \A s \in Scans :
        Done(s) /\ FilePresent(s) =>
            LET c == FileOf(s).content
            IN /\ Len(tried[s]) >= 1 /\ tried[s][1] = "yaml"
               /\ c.yaml.ok => tried[s] = <<"yaml">> /\ nativeObject[s] = c.yaml
               /\ ~c.yaml.ok =>
                      tried[s] = <<"yaml", "json">> /\ nativeObject[s] = c.json
               /\ ~nativeObject[s].ok <=> (~c.yaml.ok /\ ~c.json.ok)

\* A scan decoded through the JSON fallback and returned a descriptor.
C3_Witness ==
    \E s \in Scans :
        /\ Returned(s)
        /\ ~FileOf(s).content.yaml.ok
        /\ FileOf(s).content.json.ok
        /\ tried[s] = <<"yaml", "json">>
        /\ nativeObject[s] = FileOf(s).content.json

(* ------------------------------- C4 ---------------------------------- *)

\* C4 as stated: any addons value other than an absent one (false, 0 and the
\* empty string included) gives canEmulate = false, and no addons key gives
\* canEmulate = true.
C4_AnyAddonsValue ==
    \A s \in Scans :
        Returned(s) =>
            /\ ~IsAbsentOrNull(Raw(s, "addons")) => result[s].canEmulate = FALSE
            /\ Raw(s, "addons") = Undefined => result[s].canEmulate = TRUE

\* C4 (amended): canEmulate is false exactly when the addons value is truthy:
\* with no addons key, or with null, false, 0 or the empty string, it is true.
C4_TruthyAddons ==
    \A s \in Scans :
        Returned(s) =>
            LET a == Raw(s, "addons")
            IN /\ result[s].addons = a
               /\ IsAbsentOrNull(a) \/ IsFalsyScalar(a) => result[s].canEmulate = TRUE
               /\ ~(IsAbsentOrNull(a) \/ IsFalsyScalar(a)) =>
                      result[s].canEmulate = FALSE

\* A descriptor with a truthy addons value and canEmulate = false.
C4_Witness ==
    \E s \in Scans :
        /\ Returned(s)
        /\ Raw(s, "addons") = Map([apt |-> StrA])
        /\ result[s].canEmulate = FALSE

(* ------------------------------- C5 ---------------------------------- *)

\* C5 as stated: an entry KEY=VALUE binds the text before its first '=' to
\* the text after it, without its two outer characters exactly when that text
\* begins and ends with a double quote and unchanged otherwise; an absent env
\* gives the empty mapping.  (Read for the last entry of each key.)
C5_StripsWrappedOnly ==
    \A s \in Scans :
        Returned(s) =>
            /\ Raw(s, "env") = Undefined => result[s].env = EmptyObject
            /\ EnvIsStringList(s) =>
                   \A i \in 1..EnvLen(s) :
                       LET e == EnvEntry(s, i)
                       IN HasEq(e) /\ LastForItsKey(s, i) =>
                              /\ TextBeforeEq(e) \in DOMAIN result[s].env
                              /\ result[s].env[TextBeforeEq(e)] =
                                     IF Wrapped(TextAfterEq(e))
                                     THEN WithoutOuter(TextAfterEq(e))
                                     ELSE TextAfterEq(e)

\* C5 (amended): the value loses its first and last characters exactly when it
\* begins with a double quote and is longer than that one character, whether
\* or not it ends with a double quote; of several entries with one key the
\* last is stored; an absent env gives the empty mapping.
C5_StripsWhenBeginsWithQuote ==
    \A s \in Scans :
        Returned(s) =>
            /\ Raw(s, "env") = Undefined => result[s].env = EmptyObject
            /\ EnvIsStringList(s) =>
                   \A i \in 1..EnvLen(s) :
                       LET e == EnvEntry(s, i)
                       IN HasEq(e) /\ LastForItsKey(s, i) =>
                              /\ TextBeforeEq(e) \in DOMAIN result[s].env
                              /\ result[s].env[TextBeforeEq(e)] =
                                     IF BeginsWithQuote(TextAfterEq(e))
                                        /\ Len(TextAfterEq(e)) >= 2
                                     THEN WithoutOuter(TextAfterEq(e))
                                     ELSE TextAfterEq(e)

\* A descriptor whose env binds key a to the text inside the quotes of a="a".
C5_Witness ==
    \E s \in Scans :
        /\ Returned(s)
        /\ EnvIsStringList(s)
        /\ EnvLen(s) = 1
        /\ EnvEntry(s, 1) = <<"a", "=", Quote, "a", Quote>>
        /\ result[s].env[<<"a">>] = <<"a">>

(* ------------------------------- C6 ---------------------------------- *)

\* The four scalar-or-list fields: source key and descriptor field.
ListFields ==
    {<<"script", "scripts">>, <<"before_install", "beforeInstall">>,
     <<"after_success", "afterSuccess">>, <<"node_js", "nodeJs">>}

\* C6 as stated: a bare scalar, the empty string and 0 included, becomes the
\* one-element sequence holding it; a list stays as it is; an absent field
\* becomes the empty sequence.
C6_AnyScalarWrapped ==
    \A s \in Scans :
        Returned(s) =>
            \A f \in ListFields :
                LET raw == Raw(s, f[1])
                    out == result[s][f[2]]
                IN /\ IsScalar(raw) => out = <<raw>>
                   /\ raw.t = "seq" => out = raw.e
                   /\ raw = Undefined => out = <<>>

\* C6 (amended): a truthy scalar becomes the one-element sequence holding it;
\* the falsy scalars (the empty string, 0, false) and null become the empty
\* sequence, like an absent field; a list stays as it is.
C6_TruthyScalarWrapped ==
    \A s \in Scans :
        Returned(s) =>
            \A f \in ListFields :
                LET raw == Raw(s, f[1])
                    out == result[s][f[2]]
                IN /\ IsScalar(raw) /\ ~IsFalsyScalar(raw) => out = <<raw>>
                   /\ IsFalsyScalar(raw) \/ IsAbsentOrNull(raw) => out = <<>>
                   /\ raw.t = "seq" => out = raw.e

\* A descriptor whose script was the bare scalar a and whose scripts is <<a>>.
C6_Witness ==
    \E s \in Scans :
        /\ Returned(s)
        /\ Raw(s, "script") = StrA
        /\ result[s].scripts = <<StrA>>
        /\ result[s].nodeJs = <<>>

(* ------------------------------- C7 ---------------------------------- *)

\* C7: a single string gives the one-entry mapping from that string to an
\* empty object; a list of names gives one empty-object entry per distinct
\* name and no other key; absent services give the empty mapping.
C7_Services ==
    \A s \in Scans :
        Returned(s) =>
            LET raw == Raw(s, "services")
                out == result[s].services
            IN /\ raw.t = "str" =>
                      DOMAIN out = {raw.s} /\ out[raw.s] = EmptyMap
               /\ raw.t = "seq" =>
                      /\ DOMAIN out = {raw.e[i].s : i \in 1..Len(raw.e)}
                      /\ \A k \in DOMAIN out : out[k] = EmptyMap
               /\ raw = Undefined => DOMAIN out = {}

\* A descriptor for the service list <<a, b>> with the two entries a and b.
C7_Witness ==
    \E s \in Scans :
        /\ Returned(s)
        /\ Raw(s, "services") = Arr(<<StrA, StrB>>)
        /\ DOMAIN result[s].services = {<<"a">>, <<"b">>}
        /\ result[s].services[<<"b">>] = EmptyMap

(* ------------------------------- C8 ---------------------------------- *)

\* The scalar-or-list coercion of a sub-field, as the scanner applies it to
\* every such field.
Coerced(x) ==
    IF x.t = "seq" THEN x.e
    ELSE IF IsAbsentOrNull(x) \/ IsFalsyScalar(x) THEN <<>>
    ELSE <<x>>

ScanAlone(p) ==
    IF files[p] = Undefined THEN Undefined
    ELSE Settle(TryBlock(files[p].content, p)).result

\* C9: however the scans interleave at their two awaits, each ended scan
\* holds the result of scanning its own project alone, so scans of the same
\* project hold identical results.
C9_ScansIndependent ==
    /\ \A s \in Scans : Done(s) => result[s] = ScanAlone(proj[s])
    /\ \A s, u \in Scans :
           Done(s) /\ Done(u) /\ proj[s] = proj[u] => result[s] = result[u]

\* A scan returned its descriptor while a scan of another project, begun
\* before it ended, is still waiting for its content.
C9_Witness ==
    \E s, u \in Scans :
        /\ Returned(s)
        /\ pc[u] = "getContent"
        /\ proj[u] # proj[s]
        /\ FileOf(u).content # FileOf(s).content
        /\ result[s] = ScanAlone(proj[s])

(* ------------------------------- C10 --------------------------------- *)

\* Nothing but its env entries can make the normalization of scan s fail:
\* the env is a list of strings and services is absent, a string or a list.
OnlyEnvCanFail(s) ==
    /\ Done(s) /\ FilePresent(s) /\ nativeObject[s].ok
    /\ Root(s).t = "map"
    /\ EnvIsStringList(s)
    /\ Raw(s, "services").t \in {"undefined", "str", "seq"}

\* Entry i of the env of scan s is the last one stored under the empty key.
LastUnderEmptyKey(s, i) ==
    /\ KeyOfEntry(EnvEntry(s, i)) = <<>>
    /\ LastForItsKey(s, i)

\* C10 as stated: an entry without '=' is neither fatal nor skipped; the scan
\* returns a descriptor whose env binds the empty key to the entry without its
\* first character, the last such entry winning.
C10_RemainderAsIs ==
    \A s \in Scans :
        OnlyEnvCanFail(s) =>
            /\ Returned(s)
            /\ \A i \in 1..EnvLen(s) :
                   ~HasEq(EnvEntry(s, i)) /\ LastUnderEmptyKey(s, i) =>
                       /\ <<>> \in DOMAIN result[s].env
                       /\ result[s].env[<<>>] = WithoutFirst(EnvEntry(s, i))

\* C10 (amended): as stated, except that the remainder is unquoted like any
\* other value: when it begins with a double quote and is longer than that one
\* character it also loses its first and last characters.
C10_RemainderUnquoted ==
    \A s \in Scans :
        OnlyEnvCanFail(s) =>
            /\ Returned(s)
            /\ \A i \in 1..EnvLen(s) :
                   ~HasEq(EnvEntry(s, i)) /\ LastUnderEmptyKey(s, i) =>
                       LET rest == WithoutFirst(EnvEntry(s, i))
                       IN /\ <<>> \in DOMAIN result[s].env
                          /\ result[s].env[<<>>] =
                                 IF BeginsWithQuote(rest) /\ Len(rest) >= 2
                                 THEN WithoutOuter(rest)
                                 ELSE rest

\* A descriptor for the env <<"a", "aa">>: one key, the empty one, bound to
\* the remainder of the last entry.
C10_Witness ==
    \E s \in Scans :
        /\ Returned(s)
        /\ EnvIsStringList(s)
        /\ EnvLen(s) = 2
        /\ EnvEntry(s, 1) = <<"a">>
        /\ EnvEntry(s, 2) = <<"a", "a">>
        /\ DOMAIN result[s].env = {<<>>}
        /\ result[s].env[<<>>] = <<"a">>

====
